---- MODULE Spec2Model ----
(***************************************************************************)
(* Model of AcademicPerformanceAnalyzer (src/main.py) and of the pipeline  *)
(* driver run_full_analysis / run_analysis (src/main.py, src/run_all.py).  *)
(*                                                                         *)
(* Numbers: a score is an integer number of hundredths (80.25 is 8025), so *)
(* that round(1) is a real conversion: it yields a multiple of 10.  NaN is *)
(* the missing number.  Means are exact rationals (sum, count) until they  *)
(* are rounded; round(1) is numpy's round-half-to-even.                    *)
(* Text: a text cell is a sequence of one-character strings, so that       *)
(* str.strip and str.lower are computed, not assumed.                      *)
(* A DataFrame is [cols |-> set of column names, rows |-> sequence of      *)
(* rows], a row being a function from cols to cell values.                 *)
(* The columns student_id and name are left out: a frame with cols = {} is  *)
(* a file that holds identity columns only.                                *)
(* Library behaviour that differs between pandas generations is a choice   *)
(* made once, in Init (build): idxmax/idxmin of a row without any present  *)
(* score give NaN in pandas 2 and raise ValueError in pandas 3.            *)
(***************************************************************************)
EXTENDS Integers, Sequences, FiniteSets, TLC

VARIABLES
  file,          \* content of data/student_grades.csv, None when the file is absent
  build,         \* the pandas generation the program runs on
  raw_data,      \* self.raw_data
  cleaned_data,  \* self.cleaned_data
  results,       \* self.results
  cleaned_csv,   \* content of data/cleaned_grades.csv, None when never written
  written,       \* the chart and report files written so far
  last,          \* the last method called and how it ended
  pc,            \* position of run_full_analysis ("api" when methods are called directly)
  ran,           \* the stages run_full_analysis has entered
  dash_data,     \* self.data of the DashboardApp
  sidebar        \* the selections and the return value of the last create_sidebar call

dash == <<dash_data, sidebar>>

vars == <<file, build, raw_data, cleaned_data, results, cleaned_csv, written, last, pc, ran, dash_data, sidebar>>

\* ---------------------------------------------------------------- bounds
MaxRecords == 2
ImputeRecords == 3
FineSteps == 1000
StatsRecords == 3
DashRecords == 2

\* ---------------------------------------------------------------- values
None == [none |-> TRUE]
NaN == -1
NoSubject == "nan"
EmptyDict == [k \in {} |-> 0]

grade_columns == <<"Math", "Science", "English", "History", "Art">>
text_columns == <<"name", "grade_level", "gender">>
DerivedColumns == {"overall_average", "letter_grade", "performance", "best_subject", "worst_subject"}

Range(s) == {s[i] : i \in DOMAIN s}

\* ---------------------------------------------------------------- text
UpperChars == <<"A","B","C","D","E","F","G","H","I","J","K","L","M","N","O","P","Q","R","S","T","U","V","W","X","Y","Z">>
LowerChars == <<"a","b","c","d","e","f","g","h","i","j","k","l","m","n","o","p","q","r","s","t","u","v","w","x","y","z">>
DigitChars == <<"0","1","2","3","4","5","6","7","8","9">>

IndexOf(seq, c) == IF \E i \in DOMAIN seq : seq[i] = c THEN CHOOSE i \in DOMAIN seq : seq[i] = c ELSE 0

\* the code point of a character (space, digits, upper case, lower case)
Ord(c) ==
  IF c = " " THEN 32
  ELSE IF IndexOf(DigitChars, c) > 0 THEN 47 + IndexOf(DigitChars, c)
  ELSE IF IndexOf(UpperChars, c) > 0 THEN 64 + IndexOf(UpperChars, c)
  ELSE 96 + IndexOf(LowerChars, c)

\* str.lower
lower(t) == [i \in DOMAIN t |-> IF IndexOf(UpperChars, t[i]) > 0 THEN LowerChars[IndexOf(UpperChars, t[i])] ELSE t[i]]

RECURSIVE lstrip(_)
lstrip(t) == IF t # <<>> /\ Head(t) = " " THEN lstrip(Tail(t)) ELSE t

RECURSIVE rstrip(_)
rstrip(t) == IF t # <<>> /\ t[Len(t)] = " " THEN rstrip(SubSeq(t, 1, Len(t) - 1)) ELSE t

\* str.strip
strip(t) == rstrip(lstrip(t))

\* astype(str): an empty CSV field is read as NaN and becomes the text 'nan'
astype_str(t) == IF t = <<>> THEN <<"n","a","n">> ELSE t

\* str.replace(old, new) for a two-character pattern
RECURSIVE replace(_, _, _)
replace(t, old, new) ==
  IF Len(t) < Len(old) THEN t
  ELSE IF SubSeq(t, 1, Len(old)) = old THEN new \o replace(SubSeq(t, Len(old) + 1, Len(t)), old, new)
  ELSE <<Head(t)>> \o replace(Tail(t), old, new)

\* lexicographic order of Python strings
RECURSIVE TextLess(_, _)
TextLess(a, b) ==
  IF b = <<>> THEN FALSE
  ELSE IF a = <<>> THEN TRUE
  ELSE IF Ord(Head(a)) # Ord(Head(b)) THEN Ord(Head(a)) < Ord(Head(b))
  ELSE TextLess(Tail(a), Tail(b))

\* ---------------------------------------------------------------- numbers
\* numpy round(1) of the rational num/den hundredths: nearest multiple of 10,
\* ties to the even tenth
Round1(num, den) ==
  LET q == num \div (10 * den)
      r == num % (10 * den)
  IN IF 2 * r < 10 * den THEN 10 * q
     ELSE IF 2 * r > 10 * den THEN 10 * (q + 1)
     ELSE IF q % 2 = 0 THEN 10 * q ELSE 10 * (q + 1)

RECURSIVE SumSeq(_)
SumSeq(s) == IF s = <<>> THEN 0 ELSE Head(s) + SumSeq(Tail(s))

NotNull(s) == SelectSeq(s, LAMBDA v : v # NaN)

\* mean() cut off after the first decimal instead of rounded
MeanTruncated1(s) ==
  IF NotNull(s) = <<>> THEN NaN ELSE 10 * (SumSeq(NotNull(s)) \div (10 * Len(NotNull(s))))

\* mean() then round(1): NaN cells are skipped, the mean of nothing is NaN
MeanRound1(s) == IF NotNull(s) = <<>> THEN NaN ELSE Round1(SumSeq(NotNull(s)), Len(NotNull(s)))

\* Series.round(1) of one cell
RoundCell(v) == IF v = NaN THEN NaN ELSE Round1(v, 1)

\* Series.max() / Series.min(), NaN skipped
SeriesMax(s) == IF NotNull(s) = <<>> THEN NaN ELSE CHOOSE v \in Range(NotNull(s)) : \A w \in Range(NotNull(s)) : w <= v
SeriesMin(s) == IF NotNull(s) = <<>> THEN NaN ELSE CHOOSE v \in Range(NotNull(s)) : \A w \in Range(NotNull(s)) : v <= w

\* ---------------------------------------------------------------- frames
Column(d, c) == [i \in DOMAIN d.rows |-> d.rows[i][c]]

existing_grade_columns(d) == SelectSeq(grade_columns, LAMBDA c : c \in d.cols)

\* a check that was forgotten
HasGradeColumnsUnchecked(d) == TRUE

\* `if existing_grade_columns:` in transform_data and analyze_data
HasGradeColumns(d) == existing_grade_columns(d) # <<>>

\* df[c] = values: adds or overwrites column c
SetColumn(d, c, values) ==
  [cols |-> d.cols \cup {c},
   rows |-> [i \in DOMAIN d.rows |-> [k \in d.cols \cup {c} |-> IF k = c THEN values[i] ELSE d.rows[i][k]]]]

\* ---------------------------------------------------------------- inputs
\* Contents a student_grades.csv can have.  Scores are in [0, 100] or missing,
\* grade levels and genders are text (<<>> is the empty field).
RawScores == {NaN, 6000, 10000}
SecondScores == {NaN, 10000}
GradeLevels == {<<" ","9","t","h">>, <<"1","0","T","H">>}
Genders == {<<"F"," ">>}
ImputeScores == {NaN, 8000, 8025, 10000}
StatsScores == {8004, 8009, 10000}
DashScores == {NaN, 8000, 8600, 10000}
DashLevels == {<<"9","t","h">>, <<"1","0","T","H">>, <<>>}

CellValues(c, scores) ==
  IF c = "grade_level" THEN GradeLevels
  ELSE IF c = "gender" THEN Genders
  ELSE IF c = "Science" THEN SecondScores
  ELSE scores

RECURSIVE RowsOver(_, _)
RowsOver(cs, scores) ==
  IF cs = <<>> THEN {EmptyDict}
  ELSE {(Head(cs) :> v) @@ r : v \in CellValues(Head(cs), scores), r \in RowsOver(Tail(cs), scores)}

Frames(cs, scores, n) ==
  UNION {{[cols |-> Range(cs), rows |-> rs] : rs \in [1..k -> RowsOver(cs, scores)]} : k \in 0..n}

MainSchemas ==
  {s \o g \o x : s \in {<<>>, <<"Math">>, <<"Math", "Science">>},
                 g \in {<<>>, <<"grade_level">>},
                 x \in {<<>>, <<"gender">>}}

MainFiles == UNION {Frames(cs, RawScores, MaxRecords) : cs \in MainSchemas}

\* one subject column, scores with up to two decimals
ImputeFiles == Frames(<<"Math">>, ImputeScores, ImputeRecords)

\* one record, every average from 0.0 to 100.0 in steps of 0.1
FineFiles ==
  {[cols |-> {"Math", "grade_level"},
    rows |-> <<[Math |-> 10 * k, grade_level |-> <<"9","t","h">>]>>] : k \in 0..FineSteps}

\* one subject and the grade level, scores with two decimals, none missing
StatsFiles == Frames(<<"Math", "grade_level">>, StatsScores, StatsRecords)

\* what the dashboard can find on disk: one subject and the grade level, cells
\* of both possibly missing
DashFiles ==
  UNION {{[cols |-> {"Math", "grade_level"}, rows |-> rs] :
            rs \in [1..k -> {[Math |-> m, grade_level |-> g] : m \in DashScores, g \in DashLevels}]} :
         k \in 0..DashRecords}

\* what create_sample_data can produce: every column, scores rounded to 1
\* decimal or missing, every subject with some score (the model keeps its own
\* record bound and subjects)
SampleFrames ==
  {d \in Frames(<<"Math", "Science", "grade_level", "gender">>, RawScores, MaxRecords) :
     /\ Len(d.rows) = MaxRecords
     /\ \A c \in {"Math", "Science"} : \E i \in DOMAIN d.rows : d.rows[i][c] # NaN}

\* ---------------------------------------------------------------- load_data
load_data ==
  /\ IF file # None
       THEN /\ raw_data' = file
            /\ file' = file
       ELSE \E d \in SampleFrames :
            /\ raw_data' = d
            /\ file' = d
  /\ last' = [op |-> "load_data", out |-> "data", redo |-> FALSE]
  /\ UNCHANGED <<build, cleaned_data, results, cleaned_csv, written>>

\* ---------------------------------------------------------------- clean_data
\* Step 1: strip the text columns that exist
CleanText(d) ==
  [cols |-> d.cols,
   rows |-> [i \in DOMAIN d.rows |->
              [k \in d.cols |-> IF k \in Range(text_columns)
                                  THEN strip(astype_str(d.rows[i][k]))
                                  ELSE d.rows[i][k]]]]

\* Step 2: standardize grade levels
StandardizeGradeLevel(d) ==
  IF "grade_level" \in d.cols
    THEN SetColumn(d, "grade_level",
           [i \in DOMAIN d.rows |-> replace(lower(d.rows[i]["grade_level"]), <<"T","H">>, <<"t","h">>)])
    ELSE d

\* the mean updated while filling: a missing cell gets the mean of the
\* present cells above it (of the whole column when there is none above)
ImputeColumnIncremental(s) ==
  [i \in DOMAIN s |->
     IF s[i] # NaN THEN RoundCell(s[i])
     ELSE IF NotNull(SubSeq(s, 1, i - 1)) # <<>> THEN MeanRound1(SubSeq(s, 1, i - 1))
     ELSE MeanRound1(s)]

\* Steps 3 and 4 on one column: the mean is taken once, over the column as
\* loaded; fillna puts it into the missing cells; round(1) then rounds every
\* cell of the column
ImputeColumn(s) == [i \in DOMAIN s |-> IF s[i] = NaN THEN MeanRound1(s) ELSE RoundCell(s[i])]

RECURSIVE ImputeColumns(_, _)
ImputeColumns(d, cs) ==
  IF cs = <<>> THEN d
  ELSE ImputeColumns(SetColumn(d, Head(cs), ImputeColumn(Column(d, Head(cs)))), Tail(cs))

CleanFrame(d) ==
  LET t == StandardizeGradeLevel(CleanText(d))
  IN IF existing_grade_columns(t) # <<>> THEN ImputeColumns(t, existing_grade_columns(t)) ELSE t

\* clean_data without the copy of line 96: the cleaning is done on raw_data itself
clean_data_no_copy ==
  IF raw_data = None
    THEN /\ last' = [op |-> "clean_data", out |-> "None", redo |-> FALSE]
         /\ UNCHANGED <<file, build, raw_data, cleaned_data, results, cleaned_csv, written>>
    ELSE /\ raw_data' = CleanFrame(raw_data)
         /\ cleaned_data' = raw_data'
         /\ \E saved \in BOOLEAN :
              cleaned_csv' = IF saved THEN cleaned_data' ELSE cleaned_csv
         /\ last' = [op |-> "clean_data", out |-> "data", redo |-> FALSE]
         /\ UNCHANGED <<file, build, results, written>>

\* clean_data without the try/except of lines 131-136: a failed to_csv leaves the call
clean_data_save_required ==
  IF raw_data = None
    THEN /\ last' = [op |-> "clean_data", out |-> "None", redo |-> FALSE]
         /\ UNCHANGED <<file, build, raw_data, cleaned_data, results, cleaned_csv, written>>
    ELSE /\ cleaned_data' = CleanFrame(raw_data)
         /\ \E saved \in BOOLEAN :
              /\ cleaned_csv' = IF saved THEN cleaned_data' ELSE cleaned_csv
              /\ last' = [op |-> "clean_data", out |-> IF saved THEN "data" ELSE "OSError", redo |-> FALSE]
         /\ UNCHANGED <<file, build, raw_data, results, written>>

\* clean_data that copies raw_data only when there is no cleaned data yet and
\* cleans what it has otherwise
clean_data_keep ==
  IF raw_data = None
    THEN /\ last' = [op |-> "clean_data", out |-> "None", redo |-> FALSE]
         /\ UNCHANGED <<file, build, raw_data, cleaned_data, results, cleaned_csv, written>>
    ELSE /\ cleaned_data' = IF cleaned_data = None THEN CleanFrame(raw_data) ELSE CleanFrame(cleaned_data)
         /\ \E saved \in BOOLEAN :
              cleaned_csv' = IF saved THEN cleaned_data' ELSE cleaned_csv
         /\ last' = [op |-> "clean_data", out |-> "data", redo |-> FALSE]
         /\ UNCHANGED <<file, build, raw_data, results, written>>

clean_data ==
  IF raw_data = None
    THEN /\ last' = [op |-> "clean_data", out |-> "None", redo |-> FALSE]
         /\ UNCHANGED <<file, build, raw_data, cleaned_data, results, cleaned_csv, written>>
    ELSE /\ cleaned_data' = CleanFrame(raw_data)
         /\ \E saved \in BOOLEAN :
              cleaned_csv' = IF saved THEN cleaned_data' ELSE cleaned_csv
         /\ last' = [op |-> "clean_data", out |-> "data", redo |-> FALSE]
         /\ UNCHANGED <<file, build, raw_data, results, written>>

\* ---------------------------------------------------------------- transform_data
\* one row's cells in the grade columns, in column order
RowScores(row, cs) == [i \in DOMAIN cs |-> row[cs[i]]]

\* a hand-rolled mean: the sum of every numeric cell of the row, an earlier
\* overall_average included, over the number of grade columns
RowMeanOfAllNumeric(row, cs) ==
  LET s == NotNull(RowScores(row, cs))
      old == IF "overall_average" \in DOMAIN row /\ row["overall_average"] # NaN
               THEN row["overall_average"] ELSE 0
  IN IF s = <<>> THEN NaN ELSE Round1(SumSeq(s) + old, Len(s))

\* df[cols].mean(axis=1).round(1) for one row
RowMean(row, cs) == MeanRound1(RowScores(row, cs))

\* boundaries taken as exclusive
get_letter_grade_exclusive(score) ==
  IF score > 9000 THEN "A"
  ELSE IF score > 8000 THEN "B"
  ELSE IF score > 7000 THEN "C"
  ELSE IF score > 6000 THEN "D"
  ELSE "F"

\* every comparison with NaN is false, so a NaN average falls through to 'F'
get_letter_grade(score) ==
  IF score # NaN /\ score >= 9000 THEN "A"
  ELSE IF score # NaN /\ score >= 8000 THEN "B"
  ELSE IF score # NaN /\ score >= 7000 THEN "C"
  ELSE IF score # NaN /\ score >= 6000 THEN "D"
  ELSE "F"

\* boundaries taken as exclusive
get_performance_category_exclusive(score) ==
  IF score > 8500 THEN "Excellent"
  ELSE IF score > 7500 THEN "Good"
  ELSE IF score > 6500 THEN "Average"
  ELSE "Needs Improvement"

get_performance_category(score) ==
  IF score # NaN /\ score >= 8500 THEN "Excellent"
  ELSE IF score # NaN /\ score >= 7500 THEN "Good"
  ELSE IF score # NaN /\ score >= 6500 THEN "Average"
  ELSE "Needs Improvement"

\* the last column, in column order, that holds the largest present value
idxmax_last(row, cs) ==
  LET s == RowScores(row, cs)
  IN IF NotNull(s) = <<>> THEN NoSubject
     ELSE cs[CHOOSE i \in DOMAIN cs : s[i] = SeriesMax(s) /\ \A j \in (i + 1)..Len(cs) : s[j] # SeriesMax(s)]

\* idxmax(axis=1) / idxmin(axis=1) for one row: the first column, in column
\* order, that holds the largest (smallest) present value
idxmax(row, cs) ==
  LET s == RowScores(row, cs)
  IN IF NotNull(s) = <<>> THEN NoSubject
     ELSE cs[CHOOSE i \in DOMAIN cs : s[i] = SeriesMax(s) /\ \A j \in 1..(i - 1) : s[j] # SeriesMax(s)]

idxmin(row, cs) ==
  LET s == RowScores(row, cs)
  IN IF NotNull(s) = <<>> THEN NoSubject
     ELSE cs[CHOOSE i \in DOMAIN cs : s[i] = SeriesMin(s) /\ \A j \in 1..(i - 1) : s[j] # SeriesMin(s)]

\* a row without any present score: idxmax/idxmin give NaN with a
\* FutureWarning in pandas 2 and raise ValueError in pandas 3
HasAllNaRow(d, cs) == \E i \in DOMAIN d.rows : NotNull(RowScores(d.rows[i], cs)) = <<>>

WithAverages(d, cs) ==
  SetColumn(d, "overall_average", [i \in DOMAIN d.rows |-> RowMean(d.rows[i], cs)])

WithLetterGrade(d) ==
  SetColumn(d, "letter_grade", [i \in DOMAIN d.rows |-> get_letter_grade(d.rows[i]["overall_average"])])

WithPerformance(d) ==
  SetColumn(d, "performance", [i \in DOMAIN d.rows |-> get_performance_category(d.rows[i]["overall_average"])])

WithBestWorst(d, cs) ==
  SetColumn(SetColumn(d, "best_subject", [i \in DOMAIN d.rows |-> idxmax(d.rows[i], cs)]),
            "worst_subject", [i \in DOMAIN d.rows |-> idxmin(d.rows[i], cs)])

transform_data ==
  IF cleaned_data = None
    THEN /\ last' = [op |-> "transform_data", out |-> "None", redo |-> FALSE]
         /\ UNCHANGED <<file, build, raw_data, cleaned_data, results, cleaned_csv, written>>
    ELSE LET cs == existing_grade_columns(cleaned_data)
             redo == "overall_average" \in cleaned_data.cols
         IN IF ~HasGradeColumns(cleaned_data)
              THEN /\ last' = [op |-> "transform_data", out |-> "None", redo |-> redo]
                   /\ UNCHANGED <<file, build, raw_data, cleaned_data, results, cleaned_csv, written>>
              ELSE LET three == WithPerformance(WithLetterGrade(WithAverages(cleaned_data, cs)))
                   IN /\ IF build = "pandas3" /\ HasAllNaRow(three, cs)
                           THEN /\ cleaned_data' = three
                                /\ last' = [op |-> "transform_data", out |-> "ValueError", redo |-> redo]
                           ELSE /\ cleaned_data' = WithBestWorst(three, cs)
                                /\ last' = [op |-> "transform_data", out |-> "data", redo |-> redo]
                      /\ UNCHANGED <<file, build, raw_data, results, cleaned_csv, written>>

\* ---------------------------------------------------------------- analyze_data
RECURSIVE Unique(_)
\* the distinct values of a column, in order of first appearance
Unique(s) == IF s = <<>> THEN <<>> ELSE <<Head(s)>> \o Unique(SelectSeq(Tail(s), LAMBDA v : v # Head(s)))

Count(s, v) == Len(SelectSeq(s, LAMBDA x : x = v))

RECURSIVE InsertByCount(_, _)
InsertByCount(sorted, p) ==
  IF sorted = <<>> THEN <<p>>
  ELSE IF Head(sorted)[2] >= p[2] THEN <<Head(sorted)>> \o InsertByCount(Tail(sorted), p)
  ELSE <<p>> \o sorted

RECURSIVE SortByCount(_)
SortByCount(ps) == IF ps = <<>> THEN <<>> ELSE InsertByCount(SortByCount(SubSeq(ps, 1, Len(ps) - 1)), ps[Len(ps)])

\* Series.value_counts().to_dict(): <<value, count>> for every observed value,
\* largest count first, equal counts in order of first appearance
value_counts(s) == SortByCount([i \in DOMAIN Unique(s) |-> <<Unique(s)[i], Count(s, Unique(s)[i])>>])

RECURSIVE InsertKey(_, _)
InsertKey(sorted, k) ==
  IF sorted = <<>> THEN <<k>>
  ELSE IF TextLess(k, Head(sorted)) THEN <<k>> \o sorted
  ELSE <<Head(sorted)>> \o InsertKey(Tail(sorted), k)

RECURSIVE SortKeys(_)
SortKeys(ks) == IF ks = <<>> THEN <<>> ELSE InsertKey(SortKeys(Tail(ks)), Head(ks))

\* the rows of d whose column c holds k
RowsWhere(d, c, k) == SelectSeq(d.rows, LAMBDA r : r[c] = k)

\* groupby(c, sort=False): the keys in order of first appearance
groupby_mean_unsorted(d, c) ==
  LET keys == Unique(Column(d, c))
  IN [i \in DOMAIN keys |->
        <<keys[i], MeanRound1([j \in DOMAIN RowsWhere(d, c, keys[i]) |-> RowsWhere(d, c, keys[i])[j]["overall_average"]])>>]

\* df.groupby(c)['overall_average'].mean().round(1).to_dict(): <<key, mean>>
\* for every distinct value of column c, keys in sorted order
groupby_mean(d, c) ==
  LET keys == SortKeys(Unique(Column(d, c)))
  IN [i \in DOMAIN keys |->
        <<keys[i], MeanRound1([j \in DOMAIN RowsWhere(d, c, keys[i]) |-> RowsWhere(d, c, keys[i])[j]["overall_average"]])>>]

\* the number of distinct records instead of len()
total_students_distinct(d) == Cardinality(Range(d.rows))

total_students(d) == Len(d.rows)

\* Series.mean() of a series without any present value is the Python float
\* nan, which has no round method: `.mean().round(1)` raises AttributeError
ScalarMeanFails(s) == NotNull(s) = <<>>

\* the grade columns whose average the loop stored before it met a column
\* without any present value (all of them when there is none)
AveragedColumns(d, cs) ==
  IF \E k \in DOMAIN cs : ScalarMeanFails(Column(d, cs[k]))
    THEN SubSeq(cs, 1, (CHOOSE k \in DOMAIN cs :
                          /\ ScalarMeanFails(Column(d, cs[k]))
                          /\ \A j \in 1..(k - 1) : ~ScalarMeanFails(Column(d, cs[j]))) - 1)
    ELSE cs

basic_stats(d) ==
  [total_students |-> total_students(d),
   average_overall_grade |-> MeanRound1(Column(d, "overall_average")),
   highest_grade |-> SeriesMax(Column(d, "overall_average")),
   lowest_grade |-> SeriesMin(Column(d, "overall_average"))]

subject_averages(d, cs) == [i \in DOMAIN cs |-> <<cs[i], MeanRound1(Column(d, cs[i]))>>]

gender_performance(d) == IF "gender" \in d.cols THEN groupby_mean(d, "gender") ELSE <<>>

Raise(op, exc) ==
  /\ last' = [op |-> op, out |-> exc, redo |-> FALSE]
  /\ UNCHANGED <<file, build, raw_data, cleaned_data, cleaned_csv>>

analyze_data ==
  IF cleaned_data = None \/ ~HasGradeColumns(cleaned_data)
    THEN /\ last' = [op |-> "analyze_data", out |-> "None", redo |-> FALSE]
         /\ UNCHANGED <<file, build, raw_data, cleaned_data, results, cleaned_csv, written>>
    ELSE LET d == cleaned_data
             r1 == ("basic_stats" :> basic_stats(d)) @@ results
             cs == existing_grade_columns(d)
             r2 == ("subject_averages" :> subject_averages(d, AveragedColumns(d, cs))) @@ r1
             r3 == ("grade_distribution" :> value_counts(Column(d, "letter_grade"))) @@ r2
             r4 == ("performance_by_grade" :> groupby_mean(d, "grade_level")) @@ r3
             r5 == ("gender_performance" :> gender_performance(d)) @@ r4
         IN /\ UNCHANGED written
            /\ IF "overall_average" \notin d.cols
                 THEN Raise("analyze_data", "KeyError") /\ results' = results
               ELSE IF ScalarMeanFails(Column(d, "overall_average"))
                 THEN Raise("analyze_data", "AttributeError") /\ results' = results
               ELSE IF AveragedColumns(d, cs) # cs
                 THEN Raise("analyze_data", "AttributeError") /\ results' = r2
               ELSE IF "letter_grade" \notin d.cols
                 THEN Raise("analyze_data", "KeyError") /\ results' = r2
               ELSE IF "grade_level" \notin d.cols
                 THEN Raise("analyze_data", "KeyError") /\ results' = r3
               ELSE /\ results' = r5
                    /\ last' = [op |-> "analyze_data", out |-> "results", redo |-> FALSE]
                    /\ UNCHANGED <<file, build, raw_data, cleaned_data, cleaned_csv>>

\* ---------------------------------------------------------------- presenters
create_visualizations ==
  IF cleaned_data = None
    THEN /\ last' = [op |-> "create_visualizations", out |-> "None", redo |-> FALSE]
         /\ UNCHANGED <<file, build, raw_data, cleaned_data, results, cleaned_csv, written>>
    ELSE LET w1 == written \cup {"grade_distribution.png"}
             w2 == w1 \cup {"subject_performance.png"}
             w3 == w2 \cup {"performance_by_grade_level.png"}
             w4 == IF results["gender_performance"] # <<>> THEN w3 \cup {"gender_performance.png"} ELSE w3
         IN /\ UNCHANGED results
            /\ IF "letter_grade" \notin cleaned_data.cols
                 THEN Raise("create_visualizations", "KeyError") /\ written' = written
               ELSE IF "subject_averages" \notin DOMAIN results
                 THEN Raise("create_visualizations", "KeyError") /\ written' = w1
               ELSE IF "performance_by_grade" \notin DOMAIN results
                 THEN Raise("create_visualizations", "KeyError") /\ written' = w2
               ELSE IF "gender_performance" \notin DOMAIN results
                 THEN Raise("create_visualizations", "KeyError") /\ written' = w3
               ELSE /\ written' = w4
                    /\ last' = [op |-> "create_visualizations", out |-> "ok", redo |-> FALSE]
                    /\ UNCHANGED <<file, build, raw_data, cleaned_data, cleaned_csv>>

ReportSections == {"basic_stats", "subject_averages", "grade_distribution", "performance_by_grade"}

generate_report ==
  /\ UNCHANGED results
  /\ IF ReportSections \subseteq DOMAIN results
       THEN /\ written' = written \cup {"analysis_report.txt"}
            /\ last' = [op |-> "generate_report", out |-> "ok", redo |-> FALSE]
            /\ UNCHANGED <<file, build, raw_data, cleaned_data, cleaned_csv>>
       ELSE Raise("generate_report", "KeyError") /\ written' = written

\* ---------------------------------------------------------------- dashboard
\* pd.read_csv of a file that to_csv wrote: the text nan and the empty field
\* are read as missing
read_csv(d) ==
  [cols |-> d.cols,
   rows |-> [i \in DOMAIN d.rows |->
              [c \in d.cols |-> IF c \in Range(text_columns) /\ d.rows[i][c] = <<"n","a","n">>
                                  THEN <<>> ELSE d.rows[i][c]]]]

\* the threshold of B left out
dashboard_get_letter_grade_no_B(score) ==
  IF score # NaN /\ score >= 9000 THEN "A"
  ELSE IF score # NaN /\ score >= 7000 THEN "C"
  ELSE IF score # NaN /\ score >= 6000 THEN "D"
  ELSE "F"

\* get_letter_grade of dashboard.py
dashboard_get_letter_grade(score) ==
  IF score # NaN /\ score >= 9000 THEN "A"
  ELSE IF score # NaN /\ score >= 8000 THEN "B"
  ELSE IF score # NaN /\ score >= 7000 THEN "C"
  ELSE IF score # NaN /\ score >= 6000 THEN "D"
  ELSE "F"

\* get_performance_category of dashboard.py
dashboard_get_performance_category(score) ==
  IF score # NaN /\ score >= 8500 THEN "Excellent"
  ELSE IF score # NaN /\ score >= 7500 THEN "Good"
  ELSE IF score # NaN /\ score >= 6500 THEN "Average"
  ELSE "Needs Improvement"

DashAverages(d) ==
  SetColumn(d, "overall_average",
            [i \in DOMAIN d.rows |-> RowMean(d.rows[i], existing_grade_columns(d))])

DashLetterGrade(d) ==
  SetColumn(d, "letter_grade",
            [i \in DOMAIN d.rows |-> dashboard_get_letter_grade(d.rows[i]["overall_average"])])

DashPerformance(d) ==
  SetColumn(d, "performance",
            [i \in DOMAIN d.rows |-> dashboard_get_performance_category(d.rows[i]["overall_average"])])

process_raw_data(d) ==
  IF existing_grade_columns(d) # <<>> THEN DashPerformance(DashLetterGrade(DashAverages(d))) ELSE d

\* each column is added only when the data does not have it
ensure_processed_columns(d) ==
  LET d1 == IF "overall_average" \notin d.cols /\ existing_grade_columns(d) # <<>> THEN DashAverages(d) ELSE d
      d2 == IF "letter_grade" \notin d1.cols /\ "overall_average" \in d1.cols THEN DashLetterGrade(d1) ELSE d1
      d3 == IF "performance" \notin d2.cols /\ "overall_average" \in d2.cols THEN DashPerformance(d2) ELSE d2
  IN d3

\* DashboardApp(): a new app whose load_data prefers the cleaned file
dashboard_load_data ==
  /\ dash_data' = IF cleaned_csv # None THEN ensure_processed_columns(read_csv(cleaned_csv))
                  ELSE IF file # None THEN process_raw_data(file)
                  ELSE None
  /\ sidebar' = None
  /\ UNCHANGED <<file, build, raw_data, cleaned_data, results, cleaned_csv, written, last, pc, ran>>

\* the choice 'All' of a selectbox (grade levels are character sequences)
All == "All"
AllLevels == <<"A","l","l">>

\* ['All'] + sorted(self.data[c].unique().tolist())
Options(d, c, all) == IF c \in d.cols THEN {all} \cup Range(Column(d, c)) ELSE {all}

\* sorted() of grade levels of which some are missing (float nan) and some are
\* text raises TypeError
SortFails(d) ==
  /\ "grade_level" \in d.cols
  /\ <<>> \in Range(Column(d, "grade_level"))
  /\ \E v \in Range(Column(d, "grade_level")) : v # <<>>

\* filtered_data[filtered_data[c] == selected]: a missing cell equals nothing
Matching(d, c, selected) ==
  [d EXCEPT !.rows = SelectSeq(d.rows, LAMBDA r : r[c] = selected /\ (c = "grade_level" => r[c] # <<>>))]

\* the letter filter taken from self.data instead of filtered_data
ApplyFiltersFromData(d, g, l, p) ==
  LET f1 == IF g # AllLevels /\ "grade_level" \in d.cols THEN Matching(d, "grade_level", g) ELSE d
      f2 == IF l # All /\ "letter_grade" \in f1.cols THEN Matching(d, "letter_grade", l) ELSE f1
      f3 == IF p # All /\ "performance" \in f2.cols THEN Matching(f2, "performance", p) ELSE f2
  IN f3

\* the three filters, applied one after the other to a copy of self.data
ApplyFilters(d, g, l, p) ==
  LET f1 == IF g # AllLevels /\ "grade_level" \in d.cols THEN Matching(d, "grade_level", g) ELSE d
      f2 == IF l # All /\ "letter_grade" \in f1.cols THEN Matching(f1, "letter_grade", l) ELSE f1
      f3 == IF p # All /\ "performance" \in f2.cols THEN Matching(f2, "performance", p) ELSE f2
  IN f3

create_sidebar ==
  /\ IF dash_data = None
       THEN sidebar' = [selected |-> <<AllLevels, All, All>>, out |-> "None", filtered |-> None]
     ELSE IF SortFails(dash_data)
       THEN sidebar' = [selected |-> <<AllLevels, All, All>>, out |-> "TypeError", filtered |-> None]
     ELSE \E g \in Options(dash_data, "grade_level", AllLevels) :
          \E l \in Options(dash_data, "letter_grade", All) :
          \E p \in Options(dash_data, "performance", All) :
            sidebar' = [selected |-> <<g, l, p>>, out |-> "data",
                        filtered |-> ApplyFilters(dash_data, g, l, p)]
  /\ UNCHANGED <<file, build, raw_data, cleaned_data, results, cleaned_csv, written, last, pc, ran, dash_data>>

\* ---------------------------------------------------------------- direct calls
Start(files) ==
  /\ file \in files
  /\ build \in {"pandas2", "pandas3"}
  /\ raw_data = None
  /\ cleaned_data = None
  /\ results = EmptyDict
  /\ cleaned_csv = None
  /\ written = {}
  /\ last = [op |-> "__init__", out |-> "None", redo |-> FALSE]
  /\ ran = {}
  /\ dash_data = None
  /\ sidebar = None

Init == Start({None} \cup MainFiles) /\ pc = "api"

\* the methods of one analyzer, called in any order
Next ==
  \/ load_data /\ UNCHANGED <<pc, ran, dash_data, sidebar>>
  \/ clean_data /\ UNCHANGED <<pc, ran, dash_data, sidebar>>
  \/ transform_data /\ UNCHANGED <<pc, ran, dash_data, sidebar>>
  \/ analyze_data /\ UNCHANGED <<pc, ran, dash_data, sidebar>>

Spec == Init /\ [][Next]_vars

\* the same calls on single-record files that cover every average
InitGrades == Start(FineFiles) /\ pc = "api"
SpecGrades == InitGrades /\ [][Next]_vars

\* the same calls on single-subject files with scores of up to two decimals
InitImpute == Start(ImputeFiles) /\ pc = "api"
SpecImpute == InitImpute /\ [][Next]_vars

\* the same calls on files of up to StatsRecords records with one subject
InitStats == Start(StatsFiles) /\ pc = "api"
SpecStats == InitStats /\ [][Next]_vars

\* ---------------------------------------------------------------- run_full_analysis
Exceptions == {"KeyError", "ValueError", "AttributeError"}

\* one stage of run_full_analysis; an exception leaves it, and run_analysis
\* catches it and returns False
Stage(name, method, next) ==
  /\ pc = name
  /\ method
  /\ ran' = ran \cup {name}
  /\ pc' = IF last'.out \in Exceptions THEN "failed" ELSE next
  /\ UNCHANGED <<dash_data, sidebar>>

InitRun == Start({None} \cup MainFiles) /\ pc = "load_data"

NextRun ==
  \/ Stage("load_data", load_data, "clean_data")
  \/ Stage("clean_data", clean_data, "transform_data")
  \/ Stage("transform_data", transform_data, "analyze_data")
  \/ Stage("analyze_data", analyze_data, "create_visualizations")
  \/ Stage("create_visualizations", create_visualizations, "generate_report")
  \/ Stage("generate_report", generate_report, "done")

SpecRun == InitRun /\ [][NextRun]_vars

\* ---------------------------------------------------------------- dashboard runs
\* the dashboard is started on the files an earlier run of main.py left: the
\* raw file, and the cleaned file when clean_data could write it
InitSidebar ==
  /\ file \in {None} \cup DashFiles
  /\ build \in {"pandas2", "pandas3"}
  /\ raw_data = None
  /\ cleaned_data = None
  /\ results = EmptyDict
  /\ cleaned_csv \in (IF file = None THEN {None} ELSE {None, CleanFrame(file)})
  /\ written = {}
  /\ last = [op |-> "__init__", out |-> "None", redo |-> FALSE]
  /\ ran = {}
  /\ dash_data = None
  /\ sidebar = None
  /\ pc = "api"

NextSidebar == dashboard_load_data \/ create_sidebar

SpecSidebar == InitSidebar /\ [][NextSidebar]_vars

\* the analyzer's calls and the start of the dashboard, in any order
InitDash == Start(DashFiles) /\ pc = "api"

NextDash ==
  \/ load_data /\ UNCHANGED <<pc, ran, dash_data, sidebar>>
  \/ clean_data /\ UNCHANGED <<pc, ran, dash_data, sidebar>>
  \/ transform_data /\ UNCHANGED <<pc, ran, dash_data, sidebar>>
  \/ dashboard_load_data

SpecDash == InitDash /\ [][NextDash]_vars

\* ================================================================ claims
Transformed(d) == d # None /\ "overall_average" \in d.cols

Rows(d) == {d.rows[i] : i \in DOMAIN d.rows}

\* C1: every record transform_data produced carries the letter grade of its
\* overall_average: A from 90.0, B from 80.0, C from 70.0, D from 60.0, F
\* below, each boundary belonging to the upper bucket.
C1_LetterGradeThresholds ==
  Transformed(cleaned_data) =>
    \A r \in Rows(cleaned_data) :
      LET avg == r["overall_average"] IN
      avg # NaN =>
        /\ r["letter_grade"] = "A" <=> avg >= 9000
        /\ r["letter_grade"] = "B" <=> avg \in 8000..8999
        /\ r["letter_grade"] = "C" <=> avg \in 7000..7999
        /\ r["letter_grade"] = "D" <=> avg \in 6000..6999
        /\ r["letter_grade"] = "F" <=> avg < 6000

C1_Witness ==
  /\ Transformed(cleaned_data)
  /\ \E r \in Rows(cleaned_data) : r["overall_average"] = 8000 /\ r["letter_grade"] = "B"

\* C2: every record transform_data produced carries the performance tier of its
\* overall_average: Excellent from 85.0, Good from 75.0, Average from 65.0,
\* Needs Improvement below, each boundary belonging to the upper tier.
C2_PerformanceThresholds ==
  Transformed(cleaned_data) =>
    \A r \in Rows(cleaned_data) :
      LET avg == r["overall_average"] IN
      avg # NaN =>
        /\ r["performance"] = "Excellent" <=> avg >= 8500
        /\ r["performance"] = "Good" <=> avg \in 7500..8499
        /\ r["performance"] = "Average" <=> avg \in 6500..7499
        /\ r["performance"] = "Needs Improvement" <=> avg < 6500

C2_Witness ==
  /\ Transformed(cleaned_data)
  /\ \E r \in Rows(cleaned_data) : r["overall_average"] = 7500 /\ r["performance"] = "Good"

RECURSIVE SumCounts(_)
SumCounts(ps) == IF ps = <<>> THEN 0 ELSE Head(ps)[2] + SumCounts(Tail(ps))

Returned(op, out) == last.op = op /\ last.out = out

\* C3: when analyze_data returns a result, the counts of grade_distribution add
\* up to total_students, which is the number of records.  (A dataset with a
\* record that has no present score has no present score at all after
\* clean_data, and analyze_data returns no result on it.)
C3_GradeDistributionSumsToTotal ==
  Returned("analyze_data", "results") =>
    /\ SumCounts(results["grade_distribution"]) = results["basic_stats"].total_students
    /\ results["basic_stats"].total_students = Len(cleaned_data.rows)

C3_Witness ==
  /\ Returned("analyze_data", "results")
  /\ Len(cleaned_data.rows) >= 2
  /\ Len(results["grade_distribution"]) >= 2

\* C4: after clean_data no cell of a subject column of the raw input is missing
\* in cleaned_data.
C4_NoMissingAfterClean ==
  (raw_data # None /\ cleaned_data # None) =>
    \A i \in DOMAIN cleaned_data.rows :
      \A c \in Range(existing_grade_columns(raw_data)) : cleaned_data.rows[i][c] # NaN

Derived(d) ==
  [cols |-> d.cols \cap DerivedColumns,
   rows |-> [i \in DOMAIN d.rows |-> [c \in d.cols \cap DerivedColumns |-> d.rows[i][c]]]]

\* C5: a transform_data call on data that is already transformed leaves the
\* derived columns of every record as they are.
C5_TransformIdempotent ==
  [][(Transformed(cleaned_data) /\ last'.op = "transform_data")
       => Derived(cleaned_data') = Derived(cleaned_data)]_vars

C5_Witness ==
  /\ Returned("transform_data", "data")
  /\ last.redo
  /\ Len(cleaned_data.rows) >= 1

\* m is num/den rounded to one decimal: a whole number of tenths, nearest to
\* num/den, the even tenth when two are equally near
IsRounded(m, num, den) ==
  LET diff == IF m * den >= num THEN m * den - num ELSE num - m * den
  IN /\ m % 10 = 0
     /\ 2 * diff <= 10 * den
     /\ 2 * diff = 10 * den => (m \div 10) % 2 = 0

C7_NoSubjectColumnsNoDerivedNoResult ==
  (cleaned_data # None /\ existing_grade_columns(cleaned_data) = <<>>) =>
    /\ cleaned_data.cols \cap DerivedColumns = {}
    /\ results = EmptyDict
    /\ last.op \in {"transform_data", "analyze_data"} => last.out = "None"

C7_Witness ==
  /\ cleaned_data # None
  /\ existing_grade_columns(cleaned_data) = <<>>
  /\ Len(cleaned_data.rows) >= 1
  /\ Returned("analyze_data", "None")

\* C8: clean_data on a raw dataset without any subject column reports an error
\* instead of returning a cleaned dataset; with only some subject columns
\* absent it returns the cleaned dataset, over the same columns.  (Stated for
\* datasets that hold a record.)
C8_CleanReportsMissingSchema ==
  (last.op = "clean_data" /\ raw_data # None /\ raw_data.rows # <<>>) =>
    IF existing_grade_columns(raw_data) = <<>>
      THEN last.out # "data"
      ELSE last.out = "data" /\ cleaned_data.cols = raw_data.cols

LaterStages == {"analyze_data", "create_visualizations", "generate_report"}

\* C9: in run_full_analysis, once clean_data or transform_data has met a
\* dataset without subject columns, no later stage is entered.  (Stated for
\* datasets that hold a record.)
C9_PipelineHaltsOnMissingSchema ==
  (cleaned_data # None /\ cleaned_data.rows # <<>> /\ existing_grade_columns(cleaned_data) = <<>>)
    => ran \cap LaterStages = {}

Keys(ps) == {ps[i][1] : i \in DOMAIN ps}

GroupingMapOk(section, c) ==
  IF c \in cleaned_data.cols
    THEN /\ Keys(results[section]) = Range(Column(cleaned_data, c))
         /\ Len(results[section]) = Cardinality(Range(Column(cleaned_data, c)))
    ELSE results[section] = <<>>

\* C10: analyze_data on a transformed dataset returns a result, without an
\* error, in which the map of a grouping column that is absent is empty and the
\* map of one that is present has one entry per distinct value of the column.
\* (Stated for datasets that hold a record.)
C10_AbsentGroupingColumnGivesEmptyMap ==
  (last.op = "analyze_data" /\ Transformed(cleaned_data) /\ cleaned_data.rows # <<>>) =>
    /\ last.out = "results"
    /\ GroupingMapOk("performance_by_grade", "grade_level")
    /\ GroupingMapOk("gender_performance", "gender")

\* ------------------------------------------------------------------ C11..C20
Sections ==
  {"basic_stats", "subject_averages", "grade_distribution", "performance_by_grade", "gender_performance"}

\* C11: an analyze_data call either returns a result that holds every section,
\* or leaves results as it was before the call: a call that fails writes no
\* section.  (Stated for datasets that hold a record.)
C11_AnalyzeAllOrNothing ==
  [][(last'.op = "analyze_data" /\ cleaned_data # None /\ cleaned_data.rows # <<>>) =>
       \/ results' = results
       \/ last'.out = "results" /\ Sections \subseteq DOMAIN results']_vars

\* C12 as stated: no stage changes the dataset it is given: a clean_data call
\* leaves raw_data as it was, and a transform_data call leaves the cleaned
\* dataset it was given, the one held in cleaned_data, with the same columns and
\* cell values.  (Stated for datasets that hold a record.)
C12_StagesLeaveInputUnchanged ==
  [][/\ last'.op = "clean_data" => raw_data' = raw_data
     /\ (last'.op = "transform_data" /\ cleaned_data # None /\ cleaned_data.rows # <<>>)
          => cleaned_data' = cleaned_data]_vars

\* C12, amended: clean_data leaves raw_data as it was; transform_data changes
\* the dataset it was given only by adding or rewriting derived columns: the
\* record count and every cell of the other columns stay.
C12_TransformOnlyAddsDerivedColumns ==
  [][/\ last'.op = "clean_data" => raw_data' = raw_data
     /\ (last'.op = "transform_data" /\ cleaned_data # None) =>
          /\ cleaned_data.cols \subseteq cleaned_data'.cols
          /\ cleaned_data'.cols \ cleaned_data.cols \subseteq DerivedColumns
          /\ Len(cleaned_data'.rows) = Len(cleaned_data.rows)
          /\ \A i \in DOMAIN cleaned_data.rows : \A c \in cleaned_data.cols \ DerivedColumns :
               cleaned_data'.rows[i][c] = cleaned_data.rows[i][c]]_vars

\* a dataset that clean_data had to change was cleaned and then transformed
C12_Witness ==
  /\ Returned("transform_data", "data")
  /\ raw_data = file
  /\ cleaned_data.rows # <<>>
  /\ CleanFrame(raw_data) # raw_data
  /\ DerivedColumns \subseteq cleaned_data.cols

NonDerived(d) ==
  [cols |-> d.cols \ DerivedColumns,
   rows |-> [i \in DOMAIN d.rows |-> [c \in d.cols \ DerivedColumns |-> d.rows[i][c]]]]

\* C13: whether or not data/cleaned_grades.csv was written, a clean_data call
\* on loaded data returns the dataset, and cleaned_data holds the fully cleaned
\* raw_data from then on, the same in both cases; the file, when it was
\* written, holds that dataset too.
C13_CleanedDataIndependentOfSave ==
  /\ (last.op = "clean_data" /\ raw_data # None) => (last.out = "data" /\ cleaned_data = CleanFrame(raw_data))
  /\ cleaned_data # None => NonDerived(cleaned_data) = CleanFrame(raw_data)
  /\ cleaned_csv # None => cleaned_csv = CleanFrame(raw_data)

\* the file was never written, and the pipeline went on to a result
C13_Witness ==
  /\ cleaned_csv = None
  /\ Returned("analyze_data", "results")
  /\ CleanFrame(raw_data) # raw_data

TextSorted(ps) == \A i \in 1..(Len(ps) - 1) : TextLess(ps[i][1], ps[i + 1][1])

LettersSorted(ps) == \A i \in 1..(Len(ps) - 1) : Ord(ps[i][1]) < Ord(ps[i + 1][1])

CountsDescending(ps) == \A i \in 1..(Len(ps) - 1) : ps[i][2] >= ps[i + 1][2]

DistinctCounts(ps) == \A i, j \in DOMAIN ps : i # j => ps[i][2] # ps[j][2]

\* C14 as stated: a second analyze_data call on the same transformed dataset
\* returns the same results, and in a returned result the keys of
\* grade_distribution, performance_by_grade and gender_performance are in
\* sorted order.  (The order of grade_distribution is stated for letters whose
\* counts differ.)
C14_KeyedSectionsSorted ==
  [][(last'.op = "analyze_data" /\ last'.out = "results") =>
       /\ Returned("analyze_data", "results") => results' = results
       /\ DistinctCounts(results'["grade_distribution"]) => LettersSorted(results'["grade_distribution"])
       /\ TextSorted(results'["performance_by_grade"])
       /\ TextSorted(results'["gender_performance"])]_vars

\* C14, amended: a second analyze_data call on the same transformed dataset
\* returns the same results; the keys of performance_by_grade and
\* gender_performance are in sorted order, and grade_distribution lists the
\* letters by descending count.
C14_GroupKeysSortedCountsDescending ==
  [][(last'.op = "analyze_data" /\ last'.out = "results") =>
       /\ Returned("analyze_data", "results") => results' = results
       /\ CountsDescending(results'["grade_distribution"])
       /\ TextSorted(results'["performance_by_grade"])
       /\ TextSorted(results'["gender_performance"])]_vars

\* a result over two grade levels that first appear in descending order and
\* two letters of which the more frequent sorts last
C14_Witness ==
  /\ Returned("analyze_data", "results")
  /\ Len(results["performance_by_grade"]) = 2
  /\ TextLess(cleaned_data.rows[Len(cleaned_data.rows)]["grade_level"], cleaned_data.rows[1]["grade_level"])
  /\ Len(results["grade_distribution"]) = 2
  /\ results["grade_distribution"][1][2] > results["grade_distribution"][2][2]
  /\ ~LettersSorted(results["grade_distribution"])

\* a record passes the filter on column c: 'All' was selected, or the data has
\* no such column, or the cell equals the selection (a missing cell equals
\* nothing)
Passes(r, d, c, selected, all) ==
  (selected # all /\ c \in d.cols) => (r[c] = selected /\ (c = "grade_level" => r[c] # <<>>))

\* one filter on its own
OneFilter(d, k, sel) ==
  IF k = 1 THEN ApplyFilters(d, sel[1], All, All)
  ELSE IF k = 2 THEN ApplyFilters(d, AllLevels, sel[2], All)
  ELSE ApplyFilters(d, AllLevels, All, sel[3])

FilterOrders == {<<1, 2, 3>>, <<1, 3, 2>>, <<2, 1, 3>>, <<2, 3, 1>>, <<3, 1, 2>>, <<3, 2, 1>>}

\* what the dashboard's load_data made of the files on disk
Loaded ==
  IF cleaned_csv # None THEN ensure_processed_columns(read_csv(cleaned_csv))
  ELSE IF file # None THEN process_raw_data(file)
  ELSE None

\* C15: a create_sidebar call that returns data returns exactly the records
\* of self.data that pass every one of the three filters, in their order and
\* with their columns; applying the three filters one at a time in any of the
\* six orders gives the same records; and self.data is still what load_data
\* made of the files.
C15_FiltersAreIndependentConjuncts ==
  (sidebar # None /\ sidebar.out = "data") =>
    LET sel == sidebar.selected
        d == dash_data
    IN /\ sidebar.filtered.cols = d.cols
       /\ sidebar.filtered.rows =
            SelectSeq(d.rows, LAMBDA r : /\ Passes(r, d, "grade_level", sel[1], AllLevels)
                                         /\ Passes(r, d, "letter_grade", sel[2], All)
                                         /\ Passes(r, d, "performance", sel[3], All))
       /\ \A o \in FilterOrders :
            OneFilter(OneFilter(OneFilter(d, o[1], sel), o[2], sel), o[3], sel) = sidebar.filtered
       /\ d = Loaded

\* three filters were selected at once on two records that have the selected
\* grade level and letter grade, and the performance filter dropped one of them
C15_Witness ==
  /\ sidebar # None
  /\ sidebar.out = "data"
  /\ sidebar.selected[1] # AllLevels
  /\ sidebar.selected[2] # All
  /\ sidebar.selected[3] # All
  /\ Len(dash_data.rows) = 2
  /\ Len(sidebar.filtered.rows) = 1
  /\ Len(OneFilter(dash_data, 1, sidebar.selected).rows) = 2
  /\ Len(OneFilter(dash_data, 2, sidebar.selected).rows) = 2
  /\ Len(OneFilter(dash_data, 3, sidebar.selected).rows) = 1

\* the positions, in canonical column order, of the present scores of a record
Present(r, cs) == {i \in DOMAIN cs : r[cs[i]] # NaN}

\* C16: in every transformed record that has a present score, best_subject is
\* the first subject, in canonical column order, whose score is the record's
\* maximum and worst_subject the first whose score is the minimum; so when the
\* present scores are all equal, or there is a single subject column, the two
\* are the same subject.
C16_FirstExtremalSubject ==
  (Transformed(cleaned_data) /\ "best_subject" \in cleaned_data.cols) =>
    LET cs == existing_grade_columns(cleaned_data)
    IN \A r \in Rows(cleaned_data) :
         Present(r, cs) # {} =>
           /\ \E b \in Present(r, cs) :
                /\ r["best_subject"] = cs[b]
                /\ \A j \in Present(r, cs) : r[cs[j]] <= r[cs[b]] /\ (j < b => r[cs[j]] < r[cs[b]])
           /\ \E w \in Present(r, cs) :
                /\ r["worst_subject"] = cs[w]
                /\ \A j \in Present(r, cs) : r[cs[j]] >= r[cs[w]] /\ (j < w => r[cs[j]] > r[cs[w]])
           /\ (\A i, j \in Present(r, cs) : r[cs[i]] = r[cs[j]]) => r["best_subject"] = r["worst_subject"]
           /\ Len(cs) = 1 => r["best_subject"] = r["worst_subject"]

\* a record whose two subjects tie, and a record whose second subject is the
\* better one
C16_Witness ==
  /\ Returned("transform_data", "data")
  /\ {"Math", "Science"} \subseteq cleaned_data.cols
  /\ \E r \in Rows(cleaned_data) :
       r["Math"] = r["Science"] /\ r["Math"] # NaN /\ r["best_subject"] = "Math" /\ r["worst_subject"] = "Math"
  /\ \E r \in Rows(cleaned_data) :
       r["Math"] # NaN /\ r["Math"] < r["Science"] /\ r["best_subject"] = "Science" /\ r["worst_subject"] = "Math"

\* the cells of column c in the records whose cleaned grade level is k
GroupCells(d, c, k) ==
  LET idx == SelectSeq([i \in DOMAIN d.rows |-> i], LAMBDA i : cleaned_data.rows[i]["grade_level"] = k)
  IN [j \in DOMAIN idx |-> d.rows[idx[j]][c]]

\* every mean of a returned result is the rounding of the mean of the values
\* of column c of dataset d (for the subject average: of column `subject`)
MeansAreRoundingsOf(d, subject, c) ==
  /\ \A k \in DOMAIN results["subject_averages"] :
       IsRounded(results["subject_averages"][k][2],
                 SumSeq(Column(d, subject)), Len(d.rows))
  /\ IsRounded(results["basic_stats"].average_overall_grade, SumSeq(Column(d, c)), Len(d.rows))
  /\ \A k \in DOMAIN results["performance_by_grade"] :
       LET cells == GroupCells(d, c, results["performance_by_grade"][k][1])
       IN IsRounded(results["performance_by_grade"][k][2], SumSeq(cells), Len(cells))

\* C17 as stated: every mean in a returned result is rounded once: it is the
\* 1-decimal rounding of the mean of the unrounded scores (with one subject
\* and no missing score, the raw Math scores of the records concerned).
C17_MeansRoundedOnce ==
  Returned("analyze_data", "results") => MeansAreRoundingsOf(raw_data, "Math", "Math")

\* C17, amended: every mean in a returned result is the 1-decimal rounding of
\* the mean of stored values that were rounded before: a subject average of
\* the cleaned column, average_overall_grade and the grade-level means of the
\* records' overall_average.
C17_MeansOfRoundedValues ==
  Returned("analyze_data", "results") => MeansAreRoundingsOf(cleaned_data, "Math", "overall_average")

\* three records whose reported average is not the rounding of the mean of
\* their raw scores
C17_Witness ==
  /\ Returned("analyze_data", "results")
  /\ Len(cleaned_data.rows) = 3
  /\ Column(cleaned_data, "Math") # Column(raw_data, "Math")
  /\ ~IsRounded(results["basic_stats"].average_overall_grade, SumSeq(Column(raw_data, "Math")), 3)
  /\ Len(results["performance_by_grade"]) = 2

\* the subject columns of the raw data that hold a present value
PresentSubjects == {c \in Range(existing_grade_columns(raw_data)) : NotNull(Column(raw_data, c)) # <<>>}

\* C18: after clean_data, transform_data and analyze_data, subject_averages
\* holds, for every subject column with a present raw score, the 1-decimal
\* rounding of the mean of the column's present raw scores (raw scores of at
\* most one decimal).
C18_ImputationKeepsSubjectAverage ==
  (last.op = "analyze_data" /\ Transformed(cleaned_data)) =>
    \A c \in PresentSubjects :
      \E k \in DOMAIN results["subject_averages"] :
        /\ results["subject_averages"][k][1] = c
        /\ IsRounded(results["subject_averages"][k][2],
                     SumSeq(NotNull(Column(raw_data, c))), Len(NotNull(Column(raw_data, c))))

\* C19: in any sequence of calls on one analyzer, a clean_data call on loaded
\* data sets cleaned_data to the cleaning of raw_data, which has no derived
\* column, whatever cleaned_data held before; an analyze_data call returns a
\* result only on data that has the five derived columns, which only a
\* transform_data since the last clean_data can have added; and clean_data
\* before a load, and transform_data or analyze_data before a clean, return
\* nothing and leave raw_data, cleaned_data and results as they were.
C19_CallOrder ==
  [][/\ (last'.op = "clean_data" /\ raw_data # None) =>
          /\ cleaned_data' = CleanFrame(raw_data)
          /\ cleaned_data'.cols \cap DerivedColumns = {}
     /\ (last'.op = "analyze_data" /\ last'.out = "results") =>
          /\ cleaned_data # None
          /\ DerivedColumns \subseteq cleaned_data.cols
     /\ (last'.op = "clean_data" /\ raw_data = None) =>
          /\ last'.out = "None"
          /\ UNCHANGED <<raw_data, cleaned_data, results>>
     /\ (last'.op \in {"transform_data", "analyze_data"} /\ cleaned_data = None) =>
          /\ last'.out = "None"
          /\ UNCHANGED <<raw_data, cleaned_data, results>>]_vars

\* a clean_data call after a full result was computed: the derived columns
\* are gone again
C19_Witness ==
  /\ Returned("clean_data", "data")
  /\ Sections \subseteq DOMAIN results
  /\ cleaned_data.rows # <<>>
  /\ cleaned_data.cols \cap DerivedColumns = {}

\* letter and performance are the threshold buckets of the average avg
InBuckets(avg, letter, performance) ==
  /\ letter = "A" <=> (avg # NaN /\ avg >= 9000)
  /\ letter = "B" <=> (avg # NaN /\ avg >= 8000 /\ avg < 9000)
  /\ letter = "C" <=> (avg # NaN /\ avg >= 7000 /\ avg < 8000)
  /\ letter = "D" <=> (avg # NaN /\ avg >= 6000 /\ avg < 7000)
  /\ letter = "F" <=> (avg = NaN \/ avg < 6000)
  /\ performance = "Excellent" <=> (avg # NaN /\ avg >= 8500)
  /\ performance = "Good" <=> (avg # NaN /\ avg >= 7500 /\ avg < 8500)
  /\ performance = "Average" <=> (avg # NaN /\ avg >= 6500 /\ avg < 7500)
  /\ performance = "Needs Improvement" <=> (avg = NaN \/ avg < 6500)

DashboardFields == {"overall_average", "letter_grade", "performance"}

\* C20: when the dashboard loads the cleaned file that clean_data wrote, with
\* a subject column, while the analyzer holds the transformed data, the
\* dashboard has the same records and, record by record, the overall_average,
\* letter_grade and performance that transform_data computed; and each
\* record's letter_grade and performance are the threshold buckets of its
\* overall_average.
C20_DashboardRefinesTransform ==
  [][(dash_data' # dash_data /\ cleaned_csv # None /\ existing_grade_columns(cleaned_csv) # <<>>) =>
       /\ cleaned_csv.cols \cap DerivedColumns = {}
       /\ DashboardFields \subseteq dash_data'.cols
       /\ \A i \in DOMAIN dash_data'.rows :
            InBuckets(dash_data'.rows[i]["overall_average"], dash_data'.rows[i]["letter_grade"],
                      dash_data'.rows[i]["performance"])
       /\ (cleaned_data # None /\ DashboardFields \subseteq cleaned_data.cols) =>
            /\ Len(dash_data'.rows) = Len(cleaned_data.rows)
            /\ \A i \in DOMAIN dash_data'.rows : \A c \in DashboardFields :
                 dash_data'.rows[i][c] = cleaned_data.rows[i][c]]_vars

\* the dashboard holds two records with different letters computed from the
\* cleaned file, one of whose scores was imputed, next to the transformed data
C20_Witness ==
  /\ cleaned_csv # None
  /\ Returned("transform_data", "data")
  /\ dash_data # None
  /\ Len(dash_data.rows) = 2
  /\ \E i \in DOMAIN raw_data.rows : raw_data.rows[i]["Math"] = NaN
  /\ \A i \in DOMAIN dash_data.rows : dash_data.rows[i]["overall_average"] # NaN
  /\ "F" \notin Range(Column(dash_data, "letter_grade"))
  /\ Column(dash_data, "letter_grade") = Column(cleaned_data, "letter_grade")

====
